---- MODULE Spec2Model ----
(***************************************************************************)
(* A model of rust-petname (src/src/lib.rs): the role sequencer `Lists`,   *)
(* the word store `Petnames` with `retain`, `cardinality` and              *)
(* `generate_raw`, the `Generator` trait's `generate` and `iter`, the      *)
(* `Names` iterator and the `Alliterations` grouping; and of the command    *)
(* line program (src/src/main.rs, src/src/cli.rs): `run`, `printer` and    *)
(* `main`.                                                                 *)
(*                                                                         *)
(* Words are sequences of one-character strings.  Option<T> is a sequence  *)
(* of length 0 (None) or 1 (Some).  A random source is the stream of the  *)
(* values it is going to produce, periodic and held as one period.         *)
(***************************************************************************)
EXTENDS Integers, Sequences, FiniteSets, TLC

VARIABLES
    lists,          \* a `Lists` value being iterated
    words,          \* the `words: u8` argument of the operation in progress
    calls,          \* number of next() calls made on the iterator in progress
    yielded,        \* the items next() has returned Some of, in order
    last,           \* the value returned by the latest call
    petnames,       \* the Petnames under test
    alliterations,  \* the Alliterations under test (its `groups` map)
    separator,      \* the `separator` argument of the operation in progress
    names,          \* the `Names` iterator made by `iter`
    nonRepeating,   \* the iterator made by `iter_non_repeating`
    rngIn,          \* the random source as it was handed to the latest call
    predicateIn,    \* the predicate handed to the latest retain
    origin,         \* the latest operation that put words into the Alliterations
    cli,            \* the parsed command line (struct Cli) given to `run`
    writer,         \* the output `run` writes to: when and how it fails
    ran,            \* what each `run` made so far returned and wrote
    pc              \* which operation produced `last`

vars == <<lists, words, calls, yielded, last, petnames, alliterations, separator, names,
         nonRepeating, rngIn, predicateIn, origin, cli, writer, ran, pc>>

----------------------------------------------------------------------------
(* Bounds of the model *)

\* next() calls made after a `Lists` has reached Done
ExtraCalls == 2

\* largest `words: u8`
U8Max == 255

\* longest word list a Petnames is constructed with
MaxLen == 2

\* largest `words` given to generate_raw, generate and cardinality
MaxWords == 5

\* largest `words` given to iter
MaxIterWords == 3

\* next() calls made on a Names iterator
MaxCalls == 2

\* largest `words` given to iter_non_repeating
EnumMaxWords == 3

\* width in bits of the result type of cardinality (u128 in the program: 128).
\* The arithmetic below is that of an unsigned integer of this width.
CardBits == 3

----------------------------------------------------------------------------
(* Option<T> *)

None == <<>>
Some(x) == <<x>>
IsSome(o) == Len(o) = 1
Unwrap(o) == o[1]

Min(a, b) == IF a < b THEN a ELSE b

----------------------------------------------------------------------------
(* enum Lists { Adverb(u8), Adjective, Noun, Done } and enum List *)

ListsAdverb(k) == [tag |-> "Adverb", remaining |-> k]
ListsAdjective == [tag |-> "Adjective", remaining |-> 0]
ListsNoun      == [tag |-> "Noun", remaining |-> 0]
ListsDone      == [tag |-> "Done", remaining |-> 0]

\* A slip in Lists::new: the adverb counter starts one too high.
ListsNewOffByOne(n) ==
    CASE n = 0 -> ListsDone
      [] n = 1 -> ListsNoun
      [] n = 2 -> ListsAdjective
      [] OTHER -> ListsAdverb(n - 2)

ListsNew(n) ==
    CASE n = 0 -> ListsDone
      [] n = 1 -> ListsNoun
      [] n = 2 -> ListsAdjective
      [] OTHER -> ListsAdverb(n - 3)

ListsCurrent(l) ==
    CASE l.tag = "Adjective" -> Some("Adjective")
      [] l.tag = "Adverb"    -> Some("Adverb")
      [] l.tag = "Noun"      -> Some("Noun")
      [] l.tag = "Done"      -> None

ListsAdvance(l) ==
    CASE l.tag = "Adverb" /\ l.remaining = 0 -> ListsAdjective
      [] l.tag = "Adverb" /\ l.remaining > 0 -> ListsAdverb(l.remaining - 1)
      [] l.tag = "Adjective"                 -> ListsNoun
      [] l.tag \in {"Noun", "Done"}          -> ListsDone

\* u8 addition: the sum leaves the type when it exceeds u8::MAX (a panic in a
\* build with overflow checks, a wrapped sum in one without)
U8AddOverflows(a, b) == a + b > U8Max
U8WrappingAdd(a, b) == (a + b) % (U8Max + 1)

\* A slip in Lists::remaining: the adjective and the noun that follow the
\* adverbs are counted as one word.
ListsRemainingOffByOne(l) ==
    CASE l.tag = "Adverb"    -> U8WrappingAdd(l.remaining, 2)
      [] l.tag = "Adjective" -> 2
      [] l.tag = "Noun"      -> 1
      [] l.tag = "Done"      -> 0

\* Lists::remaining: `(n + 3) as usize` adds in u8 and widens the sum
ListsRemaining(l) ==
    CASE l.tag = "Adverb"    -> U8WrappingAdd(l.remaining, 3)
      [] l.tag = "Adjective" -> 2
      [] l.tag = "Noun"      -> 1
      [] l.tag = "Done"      -> 0

\* Whether the addition in Lists::remaining overflows on l
ListsRemainingOverflows(l) == l.tag = "Adverb" /\ U8AddOverflows(l.remaining, 3)

\* <Lists as Iterator>::size_hint: (usize, Option<usize>)
ListsSizeHint(l) == LET remaining == ListsRemaining(l) IN <<remaining, Some(remaining)>>

\* <Lists as Iterator>::next: the current item, and the advanced state
ListsNext(l) == [item |-> ListsCurrent(l), lists |-> ListsAdvance(l)]

\* The items a `Lists` yields until it first returns None (what map/filter_map
\* /collect/reduce consume).
RECURSIVE ListsItems(_)
ListsItems(l) ==
    LET r == ListsNext(l)
    IN  IF IsSome(r.item) THEN <<Unwrap(r.item)>> \o ListsItems(r.lists) ELSE <<>>

----------------------------------------------------------------------------
(* Random sources, and rand's `choose` on a slice and on an iterator.  A     *)
(* random source is a periodic stream of values, held as one period: a draw *)
(* takes the head and moves it to the end.                                  *)

\* The values a random source produces, and the streams of period k
RngValues == 0..(MaxLen - 1)
Rngs(k) == [1..k -> RngValues]

\* One value drawn from rng, and rng after the draw
Draw(rng) == [value |-> Head(rng), rng |-> Tail(rng) \o <<Head(rng)>>]

\* A slip in choose: an empty slice yields a default word instead of None.
SliceChooseDefault(list, rng) ==
    IF list = <<>>
    THEN [item |-> Some(<<>>), rng |-> rng]
    ELSE [item |-> Some(list[(Draw(rng).value % Len(list)) + 1]), rng |-> Draw(rng).rng]

\* A slip in choose: the index is drawn from 0..=len, and an index of len
\* finds no element.
SliceChooseOffByOne(list, rng) ==
    IF list = <<>>
    THEN [item |-> None, rng |-> rng]
    ELSE LET index == Draw(rng).value % (Len(list) + 1)
         IN  [item |-> IF index < Len(list) THEN Some(list[index + 1]) ELSE None,
              rng |-> Draw(rng).rng]

\* <[T] as IndexedRandom>::choose: None for an empty slice (no draw is made),
\* else the element at an index in 0..len drawn from rng.
SliceChoose(list, rng) ==
    IF list = <<>>
    THEN [item |-> None, rng |-> rng]
    ELSE [item |-> Some(list[(Draw(rng).value % Len(list)) + 1]), rng |-> Draw(rng).rng]

\* <I as IteratorRandom>::choose on an iterator of known length (the values
\* of a BTreeMap): None for no item, the only item without a draw, else the
\* item at an index in 0..len drawn from rng.
IteratorChoose(items, rng) ==
    CASE Len(items) = 0 -> [item |-> None, rng |-> rng]
      [] Len(items) = 1 -> [item |-> Some(items[1]), rng |-> rng]
      [] OTHER -> [item |-> Some(items[(Draw(rng).value % Len(items)) + 1]),
                   rng |-> Draw(rng).rng]

----------------------------------------------------------------------------
(* struct Petnames { adjectives, adverbs, nouns } *)

Petnames(adjectives, adverbs, nouns) ==
    [adjectives |-> adjectives, adverbs |-> adverbs, nouns |-> nouns]

\* A slip in the match on List: the adjective is taken from the adverbs.
RoleListSwapped(p, list) ==
    CASE list = "Adverb"    -> p.adverbs
      [] list = "Adjective" -> p.adverbs
      [] list = "Noun"      -> p.nouns

\* The word list a `List` selects (the match in cardinality and generate_raw)
RoleList(p, list) ==
    CASE list = "Adverb"    -> p.adverbs
      [] list = "Adjective" -> p.adjectives
      [] list = "Noun"      -> p.nouns

\* The predicates given to retain: |s| s.len() <= letters, |s| s.starts_with(c)
Holds(predicate, word) ==
    CASE predicate.kind = "max_len"     -> Len(word) <= predicate.letters
      [] predicate.kind = "starts_with" -> Len(word) >= 1 /\ word[1] = predicate.c

VecRetain(list, predicate) == SelectSeq(list, LAMBDA w : Holds(predicate, w))

\* A slip: the adverbs are left as they are.
PetnamesRetainSkipsAdverbs(p, predicate) ==
    Petnames(VecRetain(p.adjectives, predicate),
             p.adverbs,
             VecRetain(p.nouns, predicate))

\* Petnames::retain
PetnamesRetain(p, predicate) ==
    Petnames(VecRetain(p.adjectives, predicate),
             VecRetain(p.adverbs, predicate),
             VecRetain(p.nouns, predicate))

\* u128::MAX, at the width of the model
CardMax == 2 ^ CardBits - 1

\* A slip: the product wraps around instead of saturating.
WrappingMul(a, b) == (a * b) % (CardMax + 1)

\* A slip: a saturated product stays saturated whatever it is multiplied by.
StickyMul(a, b) == IF a = CardMax \/ a * b > CardMax THEN CardMax ELSE a * b

\* u128::saturating_mul
SaturatingMul(a, b) == IF a * b > CardMax THEN CardMax ELSE a * b

\* Iterator::fold with u128::saturating_mul
RECURSIVE FoldSaturatingMul(_, _)
FoldSaturatingMul(acc, s) ==
    IF s = <<>> THEN acc ELSE FoldSaturatingMul(SaturatingMul(acc, Head(s)), Tail(s))

\* Iterator::reduce with u128::saturating_mul: None for no item, else the fold
\* of the rest into the first
ReduceSaturatingMul(s) ==
    IF s = <<>> THEN None ELSE Some(FoldSaturatingMul(Head(s), Tail(s)))

UnwrapOr(o, default) == IF IsSome(o) THEN Unwrap(o) ELSE default

\* A slip: the empty product is 1.
PetnamesCardinalityEmptyOne(p, n) ==
    LET roles == ListsItems(ListsNew(n))
        lens  == [i \in 1..Len(roles) |-> Len(RoleList(p, roles[i]))]
    IN  UnwrapOr(ReduceSaturatingMul(lens), 1)

\* Petnames::cardinality
PetnamesCardinality(p, n) ==
    LET roles == ListsItems(ListsNew(n))
        lens  == [i \in 1..Len(roles) |-> Len(RoleList(p, roles[i]))]
    IN  UnwrapOr(ReduceSaturatingMul(lens), 0)

\* The filter_map and collect of generate_raw, from the Lists state l on: the
\* words drawn, and the random source as the draws leave it.
RECURSIVE PetnamesDraw(_, _, _)
PetnamesDraw(p, l, rng) ==
    LET r == ListsNext(l)
    IN  IF ~IsSome(r.item)
        THEN [name |-> <<>>, rng |-> rng]
        ELSE LET c    == SliceChoose(RoleList(p, Unwrap(r.item)), rng)
                 rest == PetnamesDraw(p, r.lists, c.rng)
             IN  [name |-> c.item \o rest.name, rng |-> rest.rng]

\* A slip: an empty name is returned as Some.
PetnamesGenerateRawAlwaysSome(p, rng, n) ==
    LET d == PetnamesDraw(p, ListsNew(n), rng)
    IN  [value |-> Some(d.name), rng |-> d.rng]

\* <Petnames as Generator>::generate_raw
PetnamesGenerateRaw(p, rng, n) ==
    LET d == PetnamesDraw(p, ListsNew(n), rng)
    IN  [value |-> IF d.name = <<>> THEN None ELSE Some(d.name), rng |-> d.rng]

\* A slip: a separator after every word, the last one included.
RECURSIVE JoinTrailing(_, _)
JoinTrailing(ws, sep) ==
    IF ws = <<>> THEN <<>> ELSE ws[1] \o sep \o JoinTrailing(Tail(ws), sep)

\* [&str]::join
RECURSIVE Join(_, _)
Join(ws, sep) ==
    IF ws = <<>> THEN <<>>
    ELSE IF Len(ws) = 1 THEN ws[1]
    ELSE ws[1] \o sep \o Join(Tail(ws), sep)

\* <Petnames as Generator>::generate (the trait's default method)
PetnamesGenerate(p, rng, n, sep) ==
    LET raw == PetnamesGenerateRaw(p, rng, n)
    IN  [value |-> IF IsSome(raw.value) THEN Some(Join(Unwrap(raw.value), sep)) ELSE None,
         rng |-> raw.rng]

----------------------------------------------------------------------------
(* Alliterations: a BTreeMap from a first letter to the Petnames of that    *)
(* letter.  A map is a function on its set of keys; its values are read in  *)
(* the order of the keys.                                                   *)

\* The order of char on the letters that begin a word
CharOrder == <<"a", "b", "c">>

BTreeMapNew == <<>>

BTreeMapInsert(map, key, value) ==
    [k \in DOMAIN map \cup {key} |-> IF k = key THEN value ELSE map[k]]

\* BTreeMap::remove(key).unwrap_or_default(), and entry(key).or_default()
BTreeMapGetOrDefault(map, key) == IF key \in DOMAIN map THEN map[key] ELSE <<>>

BTreeMapKeys(map) == SelectSeq(CharOrder, LAMBDA c : c \in DOMAIN map)

BTreeMapValues(map) ==
    [i \in 1..Len(BTreeMapKeys(map)) |-> map[BTreeMapKeys(map)[i]]]

\* group_words_by_first_letter: the fold over the words, from acc on
RECURSIVE GroupWordsFold(_, _)
GroupWordsFold(acc, ws) ==
    IF ws = <<>> THEN acc
    ELSE LET s == Head(ws)
         IN  IF s = <<>>
             THEN GroupWordsFold(acc, Tail(ws))
             ELSE GroupWordsFold(
                      BTreeMapInsert(acc, s[1], Append(BTreeMapGetOrDefault(acc, s[1]), s)),
                      Tail(ws))

GroupWordsByFirstLetter(ws) == GroupWordsFold(BTreeMapNew, ws)

\* A slip: the adjectives and adverbs are not looked up by the letter of the
\* group; every group gets all of them.
AlliterationsFromPetnamesUngrouped(p) ==
    LET nouns == GroupWordsByFirstLetter(p.nouns)
    IN  [first_letter \in DOMAIN nouns |->
            Petnames(p.adjectives, p.adverbs, nouns[first_letter])]

\* <Alliterations as From<Petnames>>::from: one group per first letter of a
\* noun, with the adjectives and adverbs of that letter
AlliterationsFromPetnames(p) ==
    LET adjectives == GroupWordsByFirstLetter(p.adjectives)
        adverbs    == GroupWordsByFirstLetter(p.adverbs)
        nouns      == GroupWordsByFirstLetter(p.nouns)
    IN  [first_letter \in DOMAIN nouns |->
            Petnames(BTreeMapGetOrDefault(adjectives, first_letter),
                     BTreeMapGetOrDefault(adverbs, first_letter),
                     nouns[first_letter])]

\* <Alliterations as From<GROUPS>>::from: the pairs <<letter, petnames>>
\* collected into the map, a later pair replacing an earlier one of its letter
RECURSIVE AlliterationsCollect(_, _)
AlliterationsCollect(acc, groups) ==
    IF groups = <<>> THEN acc
    ELSE AlliterationsCollect(BTreeMapInsert(acc, Head(groups)[1], Head(groups)[2]),
                              Tail(groups))

AlliterationsFromGroups(groups) == AlliterationsCollect(BTreeMapNew, groups)

\* The predicates given to Alliterations::retain, applied to the letter and
\* the group (which the predicate may change): what it answers, and the group
\* as it leaves it.
\*   letter_is_not    |first_letter, _| *first_letter != c
\*   cardinality      |_, group| group.cardinality(words) > 0
\*   alliterate_with  |first_letter, group|
\*                        *first_letter == c && group.cardinality(words) > 0
\*   assign           |_, group| { *group = <the Petnames given>; true }
GroupHolds(gp, first_letter, group) ==
    CASE gp.kind = "letter_is_not" ->
            [keep |-> first_letter # gp.c, group |-> group]
      [] gp.kind = "cardinality" ->
            [keep |-> PetnamesCardinality(group, gp.words) > 0, group |-> group]
      [] gp.kind = "alliterate_with" ->
            [keep |-> first_letter = gp.c /\ PetnamesCardinality(group, gp.words) > 0,
             group |-> group]
      [] gp.kind = "assign" ->
            [keep |-> TRUE, group |-> gp.group]

\* A slip: retain runs its predicate and removes no group.
AlliterationsRetainKeepsAll(a, gp) ==
    [c \in DOMAIN a |-> GroupHolds(gp, c, a[c]).group]

\* A slip: retain keeps the groups its predicate rejects.
AlliterationsRetainInverted(a, gp) ==
    [c \in {k \in DOMAIN a : ~GroupHolds(gp, k, a[k]).keep} |-> GroupHolds(gp, c, a[c]).group]

\* Alliterations::retain (BTreeMap::retain on the groups)
AlliterationsRetain(a, gp) ==
    [c \in {k \in DOMAIN a : GroupHolds(gp, k, a[k]).keep} |-> GroupHolds(gp, c, a[c]).group]

\* A slip: the sum wraps around instead of saturating.
WrappingAdd(a, b) == (a + b) % (CardMax + 1)

\* u128::saturating_add
SaturatingAdd(a, b) == IF a + b > CardMax THEN CardMax ELSE a + b

RECURSIVE FoldSaturatingAdd(_, _)
FoldSaturatingAdd(acc, s) ==
    IF s = <<>> THEN acc ELSE FoldSaturatingAdd(SaturatingAdd(acc, Head(s)), Tail(s))

ReduceSaturatingAdd(s) ==
    IF s = <<>> THEN None ELSE Some(FoldSaturatingAdd(Head(s), Tail(s)))

\* Alliterations::cardinality
AlliterationsCardinality(a, n) ==
    LET values == BTreeMapValues(a)
        cards  == [i \in 1..Len(values) |-> PetnamesCardinality(values[i], n)]
    IN  UnwrapOr(ReduceSaturatingAdd(cards), 0)

\* The lists of all the groups, each role's lists one after the other
RECURSIVE MergedGroups(_)
MergedGroups(groups) ==
    IF groups = <<>> THEN Petnames(<<>>, <<>>, <<>>)
    ELSE LET rest == MergedGroups(Tail(groups))
         IN  Petnames(Head(groups).adjectives \o rest.adjectives,
                      Head(groups).adverbs \o rest.adverbs,
                      Head(groups).nouns \o rest.nouns)

\* A slip: a group is chosen, but the words are drawn from all the groups
\* together.
AlliterationsGenerateRawAnyGroup(a, rng, n) ==
    LET group == IteratorChoose(BTreeMapValues(a), rng)
    IN  IF IsSome(group.item)
        THEN PetnamesGenerateRaw(MergedGroups(BTreeMapValues(a)), group.rng, n)
        ELSE [value |-> None, rng |-> group.rng]

\* <Alliterations as Generator>::generate_raw
AlliterationsGenerateRaw(a, rng, n) ==
    LET group == IteratorChoose(BTreeMapValues(a), rng)
    IN  IF IsSome(group.item)
        THEN PetnamesGenerateRaw(Unwrap(group.item), group.rng, n)
        ELSE [value |-> None, rng |-> group.rng]

\* <Alliterations as Generator>::generate (the trait's default method)
AlliterationsGenerate(a, rng, n, sep) ==
    LET raw == AlliterationsGenerateRaw(a, rng, n)
    IN  [value |-> IF IsSome(raw.value) THEN Some(Join(Unwrap(raw.value), sep)) ELSE None,
         rng |-> raw.rng]

----------------------------------------------------------------------------
(* Values of the variables an execution does not use *)

NoPetnames == [adjectives |-> <<>>, adverbs |-> <<>>, nouns |-> <<>>]
NoAlliterations == <<>>
NoNames == [generator |-> "none", rng |-> <<>>, words |-> 0, separator |-> <<>>]
NoCli == [words |-> 0]
NoWriter == [writes |-> 0, error |-> "none", flush |-> "none"]
NoPredicate == [kind |-> "none", letters |-> 0, c |-> ""]
NoNonRepeating == [iters |-> <<>>, separator |-> <<>>, remaining |-> 0, done |-> TRUE]

----------------------------------------------------------------------------
(* The role sequencer on its own: Lists::new(n), then next() again and again *)

InitLists ==
    /\ words \in 0..U8Max
    /\ lists = ListsNew(words)
    /\ calls = 0
    /\ yielded = <<>>
    /\ last = None
    /\ petnames = NoPetnames
    /\ alliterations = NoAlliterations
    /\ separator = <<>>
    /\ names = NoNames
    /\ nonRepeating = NoNonRepeating
    /\ rngIn = <<>>
    /\ predicateIn = NoPredicate
    /\ origin = "none"
    /\ cli = NoCli
    /\ writer = NoWriter
    /\ ran = <<>>
    /\ pc = "lists"

\* lists.next()
LNext ==
    /\ pc \in {"lists", "size_hint"}
    /\ calls < words + ExtraCalls
    /\ LET r == ListsNext(lists)
       IN  /\ lists' = r.lists
           /\ last' = r.item
           /\ yielded' = IF IsSome(r.item) THEN Append(yielded, Unwrap(r.item)) ELSE yielded
    /\ calls' = calls + 1
    /\ pc' = "lists"
    /\ UNCHANGED <<words, petnames, alliterations, separator, names, nonRepeating, rngIn, predicateIn, origin, cli, writer, ran>>

\* lists.size_hint(): reads the state and leaves it as it is
LSizeHint ==
    /\ pc = "lists"
    /\ last' = ListsSizeHint(lists)
    /\ pc' = "size_hint"
    /\ UNCHANGED <<lists, words, calls, yielded, petnames, alliterations, separator, names,
                   nonRepeating, rngIn, predicateIn, origin, cli, writer, ran>>

NextLists ==
    \/ LNext
    \/ LSizeHint

SpecLists == InitLists /\ [][NextLists]_vars

----------------------------------------------------------------------------
(* A Petnames and the operations on it *)

\* The words a list is made of: the role's own words, with one word ("b")
\* that every role has.  r marks the role.
Vocabulary(r) ==
    << <<"a", r>>, <<"b", r>>, <<"a", r, "x">>, <<"b">>, <<"c", r>> >>

WordList(r, len) == SubSeq(Vocabulary(r), 1, len)

Separators == { <<"-">>, <<":", ":">> }

Predicates ==
    {[kind |-> "max_len", letters |-> 2, c |-> ""]}
        \cup {[kind |-> "starts_with", letters |-> 0, c |-> ch] : ch \in {"a", "b"}}

Init ==
    /\ \E j, v, n \in 0..MaxLen :
           petnames = Petnames(WordList("j", j), WordList("v", v), WordList("n", n))
    /\ pc = "ready"
    /\ words = 0
    /\ lists = ListsDone
    /\ calls = 0
    /\ yielded = <<>>
    /\ last = None
    /\ alliterations = NoAlliterations
    /\ separator = <<>>
    /\ names = NoNames
    /\ nonRepeating = NoNonRepeating
    /\ rngIn = <<>>
    /\ predicateIn = NoPredicate
    /\ origin = "none"
    /\ cli = NoCli
    /\ writer = NoWriter
    /\ ran = <<>>

\* petnames.retain(predicate)
CallRetain(predicate) ==
    /\ pc = "ready"
    /\ petnames' = PetnamesRetain(petnames, predicate)
    /\ predicateIn' = predicate
    /\ UNCHANGED <<lists, words, calls, yielded, last, alliterations, separator, names, pc,
                   nonRepeating, rngIn, origin, cli, writer, ran>>

\* petnames.cardinality(n)
CallCardinality(n) ==
    /\ pc = "ready"
    /\ pc' = "cardinality"
    /\ words' = n
    /\ last' = PetnamesCardinality(petnames, n)
    /\ UNCHANGED <<lists, calls, yielded, petnames, alliterations, separator, names, nonRepeating, rngIn, predicateIn, origin, cli, writer, ran>>

\* petnames.generate_raw(rng, n)
CallGenerateRaw(n) ==
    /\ pc = "ready"
    /\ pc' = "generate_raw"
    /\ words' = n
    /\ \E rng \in Rngs(n) : last' = PetnamesGenerateRaw(petnames, rng, n).value
    /\ UNCHANGED <<lists, calls, yielded, petnames, alliterations, separator, names,
                   nonRepeating, rngIn, predicateIn, origin, cli, writer, ran>>

\* petnames.generate(rng, n, sep)
CallGenerate(n, sep) ==
    /\ pc = "ready"
    /\ pc' = "generate"
    /\ words' = n
    /\ separator' = sep
    /\ \E rng \in Rngs(n) :
          /\ rngIn' = rng
          /\ last' = PetnamesGenerate(petnames, rng, n, sep).value
    /\ UNCHANGED <<lists, calls, yielded, petnames, alliterations, names, nonRepeating, predicateIn, origin, cli, writer, ran>>

\* Generator::iter: a Names over the generator (the Petnames, or the
\* Alliterations once there is one) and the random source rng
CallIter(generator, n, sep) ==
    /\ pc = IF generator = "Petnames" THEN "ready" ELSE "alliterations"
    /\ pc' = "iter"
    /\ \E rng \in Rngs(n + 1) :
          names' = [generator |-> generator, rng |-> rng, words |-> n, separator |-> sep]
    /\ calls' = 0
    /\ yielded' = <<>>
    /\ last' = None
    /\ UNCHANGED <<lists, words, petnames, alliterations, separator, nonRepeating, rngIn, predicateIn, origin, cli, writer, ran>>

\* self.generator.generate(self.rng, self.words, &self.separator)
NamesGenerate(it) ==
    IF it.generator = "Petnames"
    THEN PetnamesGenerate(petnames, it.rng, it.words, it.separator)
    ELSE AlliterationsGenerate(alliterations, it.rng, it.words, it.separator)

\* <Names as Iterator>::next: one generate call with the iterator's random
\* source, words and separator
NamesNext ==
    /\ pc = "iter"
    /\ calls < MaxCalls
    /\ last' = NamesGenerate(names).value
    /\ names' = [names EXCEPT !.rng = NamesGenerate(names).rng]
    /\ calls' = calls + 1
    /\ UNCHANGED <<lists, words, yielded, petnames, alliterations, separator, pc, nonRepeating, rngIn, predicateIn, origin, cli, writer, ran>>

Next ==
    \/ \E predicate \in Predicates : CallRetain(predicate)
    \/ \E n \in 0..MaxWords : CallCardinality(n)
    \/ \E n \in 0..MaxWords : CallGenerateRaw(n)
    \/ \E n \in 0..MaxWords : \E sep \in Separators : CallGenerate(n, sep)
    \/ \E n \in 0..MaxIterWords : \E sep \in Separators : CallIter("Petnames", n, sep)
    \/ NamesNext

Spec == Init /\ [][Next]_vars

----------------------------------------------------------------------------
(* Iterators over both kinds of generator: a Petnames, an Alliterations     *)
(* converted from it, or an Alliterations collected from explicit groups    *)

GroupLetters == <<"a", "b">>

\* The Petnames of an explicit group of letter c: each list is empty or holds
\* the role's word of that letter (as in alliterations_from_explicit_groups)
GroupPetnames(c) ==
    { Petnames(j, v, n) : j \in {<<>>, << <<c, "j">> >>},
                          v \in {<<>>, << <<c, "v">> >>},
                          n \in {<<>>, << <<c, "n">> >>} }

\* The collections of explicit groups: no group, or one group for each of
\* the first letters
GroupCollections ==
    UNION { [1..k -> UNION {{<<GroupLetters[i], p>> : p \in GroupPetnames(GroupLetters[i])} :
                              i \in 1..Len(GroupLetters)}] : k \in 0..Len(GroupLetters) }

\* let alliterations: Alliterations = petnames.into().  The Petnames is moved
\* into the conversion; the variable keeps the value that was converted.
CallFromPetnames ==
    /\ pc = "ready"
    /\ pc' = "alliterations"
    /\ alliterations' = AlliterationsFromPetnames(petnames)
    /\ origin' = "Petnames"
    /\ UNCHANGED <<lists, words, calls, yielded, last, petnames, separator, names,
                   nonRepeating, rngIn, predicateIn, cli, writer, ran>>

\* let alliterations: Alliterations = groups.into()
CallFromGroups(groups) ==
    /\ pc = "ready"
    /\ pc' = "alliterations"
    /\ alliterations' = AlliterationsFromGroups(groups)
    /\ petnames' = NoPetnames
    /\ origin' = "GROUPS"
    /\ UNCHANGED <<lists, words, calls, yielded, last, separator, names, nonRepeating,
                   rngIn, predicateIn, cli, writer, ran>>

NextIter ==
    \/ CallFromPetnames
    \/ \E groups \in GroupCollections : CallFromGroups(groups)
    \/ \E generator \in {"Petnames", "Alliterations"} :
          \E n \in 0..MaxIterWords : \E sep \in Separators : CallIter(generator, n, sep)
    \/ NamesNext

SpecIter == Init /\ [][NextIter]_vars

----------------------------------------------------------------------------
(* An Alliterations and the operations on it *)

\* A group of letter c with two words in every list
FullGroup(c) ==
    Petnames(<< <<c, "j">>, <<c, "j", "x">> >>,
             << <<c, "v">>, <<c, "v", "x">> >>,
             << <<c, "n">>, <<c, "n", "x">> >>)

\* A group whose only word begins with a letter that no group is filed under
MisfiledGroup == Petnames(<<>>, <<>>, << <<"c", "n">> >>)

\* The collections of explicit groups, with the groups above among them
WideGroupCollections ==
    UNION { [1..k -> UNION {{<<GroupLetters[i], p>> :
                                p \in GroupPetnames(GroupLetters[i])
                                         \cup {FullGroup(GroupLetters[i]), MisfiledGroup}} :
                              i \in 1..Len(GroupLetters)}] : k \in 0..Len(GroupLetters) }

GroupPredicates ==
    {[kind |-> "letter_is_not", c |-> "b", words |-> 0, group |-> NoPetnames]}
      \cup {[kind |-> "cardinality", c |-> "", words |-> 2, group |-> NoPetnames]}
      \cup {[kind |-> "alliterate_with", c |-> "a", words |-> 1, group |-> NoPetnames]}
      \cup {[kind |-> "assign", c |-> "", words |-> 0, group |-> MisfiledGroup]}

\* petnames.adjectives.to_mut().insert(0, ""), and the same for the adverbs
\* and the nouns: the lists are public fields, so they can be given a
\* zero-length word
CallInsertEmptyWords ==
    /\ pc = "ready"
    /\ \A list \in {"Adverb", "Adjective", "Noun"} :
          \A i \in 1..Len(RoleList(petnames, list)) : RoleList(petnames, list)[i] # <<>>
    /\ petnames' = Petnames(<<<<>>>> \o petnames.adjectives,
                            <<<<>>>> \o petnames.adverbs,
                            <<<<>>>> \o petnames.nouns)
    /\ UNCHANGED <<lists, words, calls, yielded, last, alliterations, separator, names, pc,
                   nonRepeating, rngIn, predicateIn, origin, cli, writer, ran>>

\* alliterations.retain(gp)
CallAlliterationsRetain(gp) ==
    /\ pc = "alliterations"
    /\ alliterations' = AlliterationsRetain(alliterations, gp)
    /\ predicateIn' = gp
    /\ origin' = IF gp.kind = "assign" THEN "retain" ELSE origin
    /\ UNCHANGED <<lists, words, calls, yielded, last, petnames, separator, names, pc,
                   nonRepeating, rngIn, cli, writer, ran>>

\* alliterations.cardinality(n)
CallAlliterationsCardinality(n) ==
    /\ pc = "alliterations"
    /\ pc' = "alliterations_cardinality"
    /\ words' = n
    /\ last' = AlliterationsCardinality(alliterations, n)
    /\ UNCHANGED <<lists, calls, yielded, petnames, alliterations, separator, names,
                   nonRepeating, rngIn, predicateIn, origin, cli, writer, ran>>

\* alliterations.generate_raw(rng, n)
CallAlliterationsGenerateRaw(n) ==
    /\ pc = "alliterations"
    /\ pc' = "alliterations_generate_raw"
    /\ words' = n
    /\ \E rng \in Rngs(n + 1) :
          /\ rngIn' = rng
          /\ last' = AlliterationsGenerateRaw(alliterations, rng, n).value
    /\ UNCHANGED <<lists, calls, yielded, petnames, alliterations, separator, names,
                   nonRepeating, predicateIn, origin, cli, writer, ran>>

NextAlliterations ==
    \/ CallInsertEmptyWords
    \/ CallFromPetnames
    \/ \E groups \in WideGroupCollections : CallFromGroups(groups)
    \/ \E gp \in GroupPredicates : CallAlliterationsRetain(gp)
    \/ \E n \in 0..MaxIterWords : CallAlliterationsCardinality(n)
    \/ \E n \in 0..MaxIterWords : CallAlliterationsGenerateRaw(n)

SpecAlliterations == Init /\ [][NextAlliterations]_vars

----------------------------------------------------------------------------
(* The command line: the arguments clap accepts, the Cli it parses them     *)
(* into, and `run`                                                          *)

\* largest --words given on a command line
MaxCliWords == 3

\* largest --count given on a command line
MaxCount == 2

\* the values given to --seed
Seeds == {0, 1}

\* The built-in lists of a size ("small", "medium", "large"): the words of
\* role r.  Every size has its own words; the larger sizes have longer words
\* too, and the large nouns have a letter that no large adjective has.
BuiltinWords(r, size) ==
    CASE size = "small"  -> << <<"a", r, "s">>, <<"b", r, "s">> >>
      [] size = "medium" -> << <<"a", r, "m">>, <<"b", r, "m">>, <<"a", r, "m", "x">> >>
      [] size = "large"  -> << <<"a", r, "l">>, <<"b", r, "l", "x">> >>
                                \o (IF r = "n" THEN << <<"c", r, "l">> >> ELSE <<>>)

\* Petnames::small, Petnames::medium, Petnames::large
PetnamesBuiltin(size) ==
    Petnames(BuiltinWords("j", size), BuiltinWords("v", size), BuiltinWords("n", size))

\* The directories given to --dir: the words of each file, None for a file
\* that cannot be read.  The third has long adverbs only, and no adjective
\* that begins as a noun does.
Directories ==
    { [adjectives |-> Some(WordList("j", 2)), adverbs |-> Some(WordList("v", 1)),
       nouns |-> Some(WordList("n", 2)), names |-> None],
      [adjectives |-> Some(WordList("j", 1)), adverbs |-> None,
       nouns |-> Some(WordList("n", 1)), names |-> None],
      [adjectives |-> Some(<< <<"a", "j">> >>), adverbs |-> Some(<< <<"a", "v", "x", "x">> >>),
       nouns |-> Some(<< <<"b", "n">> >>), names |-> None] }

\* What can be given on the command line: None for an option left out
CliArgs ==
    [words : 0..MaxCliWords,
     separator : {<<"-">>},
     lists : {None} \cup {Some(size) : size \in {"small", "medium", "large"}},
     complexity : {None} \cup {Some(size) : size \in {"small", "medium", "large"}},
     directory : {None} \cup {Some(d) : d \in Directories},
     count : {None} \cup {Some(n) : n \in 0..MaxCount},
     stream : BOOLEAN,
     letters : {0, 3},
     alliterate : BOOLEAN,
     alliterate_with : {None} \cup {Some(c) : c \in {"a", "c"}},
     ubuntu : BOOLEAN,
     seed : {None} \cup {Some(n) : n \in Seeds}]

\* The conflicts_with attributes of struct Cli: clap refuses the arguments
\* when both options of a conflict are given
Conflicts(args) ==
    \/ IsSome(args.complexity) /\ IsSome(args.lists)
    \/ IsSome(args.directory) /\ IsSome(args.lists)
    \/ args.stream /\ IsSome(args.count)
    \/ args.ubuntu /\ (args.alliterate \/ IsSome(args.alliterate_with))

\* Cli::parse: the options given, and the default of the others
CliParse(args) ==
    [words |-> args.words,
     separator |-> args.separator,
     lists |-> UnwrapOr(args.lists, "medium"),
     complexity |-> args.complexity,
     directory |-> args.directory,
     count |-> UnwrapOr(args.count, 1),
     stream |-> args.stream,
     letters |-> args.letters,
     alliterate |-> args.alliterate,
     alliterate_with |-> args.alliterate_with,
     ubuntu |-> args.ubuntu,
     seed |-> args.seed]

\* Words::load: the three lists of the directory, or the error of the first
\* file that cannot be read (names.txt stands in for a missing nouns.txt)
WordsLoad(d) ==
    IF ~IsSome(d.adjectives) \/ ~IsSome(d.adverbs) THEN [error |-> "FileIo", words |-> NoPetnames]
    ELSE IF IsSome(d.nouns)
         THEN [error |-> "none",
               words |-> Petnames(Unwrap(d.adjectives), Unwrap(d.adverbs), Unwrap(d.nouns))]
    ELSE IF IsSome(d.names)
         THEN [error |-> "none",
               words |-> Petnames(Unwrap(d.adjectives), Unwrap(d.adverbs), Unwrap(d.names))]
    ELSE [error |-> "FileIo", words |-> NoPetnames]

\* StdRng::seed_from_u64: the stream is a function of the seed
SeedFromU64(seed, period) == [i \in 1..period |-> (seed + i) % (MaxLen)]

\* suppress_disconnect
SuppressDisconnect(kind) == IF kind = "BrokenPipe" THEN "Disconnected" ELSE "Io"

\* The generate call of Names::next on the generator of the iterator it
GeneratorGenerate(it) ==
    IF it.generator = "Petnames"
    THEN PetnamesGenerate(it.value, it.rng, it.words, it.separator)
    ELSE AlliterationsGenerate(it.value, it.rng, it.words, it.separator)

\* From<io::Error> for Error, which the `?` of a write applies
ErrorFromIo(kind) == "Io"

\* printer, from the moment out has been written: the loop over names (all
\* of them for count None, the first n for Some(n)), then the flush.  The
\* writer w accepts w.writes lines and fails the next with w.error (never,
\* for "none"); its flush fails with w.flush.  The result tells the lines
\* written and the failure of the writer that ended the run, if one did.
RECURSIVE PrinterFrom(_, _, _, _)
PrinterFrom(w, it, count, out) ==
    LET name == GeneratorGenerate(it)
    IN  IF (IsSome(count) /\ Len(out) >= Unwrap(count)) \/ ~IsSome(name.value)
        THEN [result |-> IF w.flush = "none" THEN "Ok" ELSE SuppressDisconnect(w.flush),
              out |-> out,
              failure |-> [at |-> IF w.flush = "none" THEN "none" ELSE "flush",
                           kind |-> w.flush]]
        ELSE IF w.error # "none" /\ Len(out) >= w.writes
             THEN [result |-> IF IsSome(count) THEN ErrorFromIo(w.error)
                              ELSE SuppressDisconnect(w.error),
                   out |-> out,
                   failure |-> [at |-> "write", kind |-> w.error]]
             ELSE PrinterFrom(w, [it EXCEPT !.rng = name.rng], count,
                              Append(out, Unwrap(name.value)))

Printer(w, it, count) == PrinterFrom(w, it, count, <<>>)

\* Generator::iter, on the generator value of kind generator
Iter(generator, value, rng, n, sep) ==
    [generator |-> generator, value |-> value, rng |-> rng, words |-> n, separator |-> sep]

\* A slip: the seed is parsed but never used.
RunRngUnseeded(c, osRng) == osRng

\* cli.seed.map(StdRng::seed_from_u64).unwrap_or_else(StdRng::from_os_rng)
RunRng(c, osRng) ==
    IF IsSome(c.seed) THEN SeedFromU64(Unwrap(c.seed), c.words + 1) ELSE osRng

\* The word lists run loads: those of cli.directory, or else the built-in
\* lists cli.lists names
RunLoad(c) ==
    IF IsSome(c.directory)
    THEN WordsLoad(Unwrap(c.directory))
    ELSE [error |-> "none", words |-> PetnamesBuiltin(c.lists)]

\* A slip in run: the words are loaded and the --letters filter is left out.
RunPetnamesUnfiltered(c) == RunLoad(c).words

\* The Petnames run generates from: the lists loaded, without the words of
\* more than cli.letters letters when cli.letters is not 0
RunPetnames(c) ==
    IF c.letters # 0
    THEN PetnamesRetain(RunLoad(c).words, [kind |-> "max_len", letters |-> c.letters, c |-> ""])
    ELSE RunLoad(c).words

\* run returning the error e before printer is called: nothing is written
Returned(e) == [result |-> e, out |-> <<>>, failure |-> [at |-> "none", kind |-> "none"]]

\* run(cli, writer), with osRng the stream StdRng::from_os_rng would give:
\* the result (Ok or the error) and the lines written
Run(c, w, osRng) ==
    LET loaded == RunLoad(c)
        p      == RunPetnames(c)
        rng    == RunRng(c, osRng)
        count  == IF c.stream THEN None ELSE Some(c.count)
    IN  IF loaded.error # "none" THEN Returned(loaded.error)
        ELSE IF PetnamesCardinality(p, c.words) = 0 THEN Returned("Cardinality")
        ELSE IF c.alliterate \/ c.ubuntu
        THEN LET a == AlliterationsRetain(AlliterationsFromPetnames(p),
                          [kind |-> "cardinality", c |-> "", words |-> c.words,
                           group |-> NoPetnames])
             IN  IF AlliterationsCardinality(a, c.words) = 0
                 THEN Returned("Alliteration")
                 ELSE Printer(w, Iter("Alliterations", a, rng, c.words, c.separator), count)
        ELSE IF IsSome(c.alliterate_with)
        THEN LET a == AlliterationsRetain(AlliterationsFromPetnames(p),
                          [kind |-> "alliterate_with", c |-> Unwrap(c.alliterate_with),
                           words |-> c.words, group |-> NoPetnames])
             IN  IF AlliterationsCardinality(a, c.words) = 0
                 THEN Returned("Alliteration")
                 ELSE Printer(w, Iter("Alliterations", a, rng, c.words, c.separator), count)
        ELSE Printer(w, Iter("Petnames", p, rng, c.words, c.separator), count)

\* The writers given to run: one that never fails, and the reader of a stream
\* that stops reading after MaxCount lines
Writers(c) ==
    IF c.stream
    THEN {[writes |-> MaxCount, error |-> "BrokenPipe", flush |-> "none"]}
    ELSE {[writes |-> 0, error |-> "none", flush |-> "none"]}

InitCli ==
    /\ \E args \in CliArgs : ~Conflicts(args) /\ cli = CliParse(args)
    /\ writer \in Writers(cli)
    /\ ran = <<>>
    /\ pc = "cli"
    /\ words = 0
    /\ lists = ListsDone
    /\ calls = 0
    /\ yielded = <<>>
    /\ last = None
    /\ petnames = NoPetnames
    /\ alliterations = NoAlliterations
    /\ separator = <<>>
    /\ names = NoNames
    /\ nonRepeating = NoNonRepeating
    /\ rngIn = <<>>
    /\ predicateIn = NoPredicate
    /\ origin = "none"

\* The streams StdRng::from_os_rng can give run.  A command line that gives a
\* seed does not call it: the constant streams stand for all streams there.
OsRngs(c) ==
    IF IsSome(c.seed)
    THEN {[i \in 1..(c.words + 1) |-> v] : v \in RngValues}
    ELSE Rngs(c.words + 1)

\* run(cli, &mut writer)
CallRun ==
    /\ pc = "cli"
    /\ ran = <<>>
    /\ \E osRng \in OsRngs(cli) : ran' = <<Run(cli, writer, osRng)>>
    /\ UNCHANGED <<lists, words, calls, yielded, last, petnames, alliterations, separator,
                   names, nonRepeating, rngIn, predicateIn, origin, cli, writer, pc>>

\* run again with the same command line, word lists and writer, for the
\* command lines that give a seed
CallRunAgain ==
    /\ pc = "cli"
    /\ Len(ran) = 1
    /\ IsSome(cli.seed)
    /\ \E osRng \in OsRngs(cli) : ran' = Append(ran, Run(cli, writer, osRng))
    /\ UNCHANGED <<lists, words, calls, yielded, last, petnames, alliterations, separator,
                   names, nonRepeating, rngIn, predicateIn, origin, cli, writer, pc>>

NextCli ==
    \/ CallRun
    \/ CallRunAgain

SpecCli == InitCli /\ [][NextCli]_vars

----------------------------------------------------------------------------
(* main: run on the standard output, and the exit status *)

\* The io::ErrorKind of a write or a flush that fails: BrokenPipe, or another
ErrorKinds == {"BrokenPipe", "Other"}

\* The command lines given to main
MainArgs ==
    [words : 0..MaxCliWords,
     separator : {<<"-">>},
     lists : {None},
     complexity : {None},
     directory : {None} \cup {Some(d) : d \in Directories},
     count : {None} \cup {Some(n) : n \in 0..MaxCount},
     stream : BOOLEAN,
     letters : {0},
     alliterate : BOOLEAN,
     alliterate_with : {None, Some("c")},
     ubuntu : {FALSE},
     seed : {None, Some(0)}]

\* The outputs given to main: one that fails the write that follows k lines,
\* and for a counted run also one whose writes succeed and whose flush fails
\* or succeeds.  (A stream ends only when a write fails.)
MainWriters(c) ==
    {[writes |-> k, error |-> e, flush |-> "none"] : k \in 0..MaxCount, e \in ErrorKinds}
        \cup (IF c.stream THEN {}
              ELSE {[writes |-> 0, error |-> "none", flush |-> f] :
                       f \in {"none"} \cup ErrorKinds})

\* The match on run's result in main: the status given to process::exit
MainExit(result) == IF result \in {"Ok", "Disconnected"} THEN 0 ELSE 1

InitMain ==
    /\ \E args \in MainArgs : ~Conflicts(args) /\ cli = CliParse(args)
    /\ writer \in MainWriters(cli)
    /\ ran = <<>>
    /\ pc = "main"
    /\ words = 0
    /\ lists = ListsDone
    /\ calls = 0
    /\ yielded = <<>>
    /\ last = None
    /\ petnames = NoPetnames
    /\ alliterations = NoAlliterations
    /\ separator = <<>>
    /\ names = NoNames
    /\ nonRepeating = NoNonRepeating
    /\ rngIn = <<>>
    /\ predicateIn = NoPredicate
    /\ origin = "none"

\* main: run(cli, &mut writer), then process::exit with the status of the
\* result
CallMain ==
    /\ pc = "main"
    /\ \E osRng \in OsRngs(cli) :
          LET result == Run(cli, writer, osRng)
          IN  /\ ran' = <<result>>
              /\ last' = Some(MainExit(result.result))
    /\ pc' = "exited"
    /\ UNCHANGED <<lists, words, calls, yielded, petnames, alliterations, separator,
                   names, nonRepeating, rngIn, predicateIn, origin, cli, writer>>

NextMain == CallMain

SpecMain == InitMain /\ [][NextMain]_vars

----------------------------------------------------------------------------
(* The non-repeating enumeration (iter_non_repeating, called by               *)
(* src/tests/basic.rs).  Its code is not among the sources; this is the       *)
(* algorithm of the specification's section 4.5: one shuffled buffer per      *)
(* position with a cycle-end sentinel (None) at its end, read cyclically; a   *)
(* current value per position; the first position advances fastest.           *)

\* The working buffer of a list: its words in a shuffled order, then the sentinel
Shuffled(list) ==
    { [i \in 1..(Len(list) + 1) |-> IF i <= Len(list) THEN Some(list[f[i]]) ELSE None] :
        f \in Permutations(1..Len(list)) }

\* The iterators a construction can make for the roles: a buffer, the cursor
\* of its cyclic reading, and no current value yet
RECURSIVE ShuffledIters(_, _)
ShuffledIters(p, roles) ==
    IF roles = <<>> THEN {<<>>}
    ELSE { <<[buffer |-> b, cursor |-> 0, value |-> None]>> \o rest :
             b \in Shuffled(RoleList(p, Head(roles))),
             rest \in ShuffledIters(p, Tail(roles)) }

\* One step of a cyclic reading
CycleNext(it) ==
    [item |-> it.buffer[it.cursor + 1],
     iter |-> [it EXCEPT !.cursor = (it.cursor + 1) % Len(it.buffer)]]

\* A slip: a position that wraps does not pass the carry on.
RECURSIVE OdometerNoCarry(_, _, _)
OdometerNoCarry(iters, i, carry) ==
    IF i > Len(iters) THEN [iters |-> iters, carry |-> carry, ok |-> TRUE]
    ELSE IF ~(carry \/ iters[i].value = None)
    THEN OdometerNoCarry(iters, i + 1, carry)
    ELSE LET first == CycleNext(iters[i])
         IN  IF first.item # None
             THEN OdometerNoCarry(
                      [iters EXCEPT ![i] = [first.iter EXCEPT !.value = first.item]],
                      i + 1, FALSE)
             ELSE LET second == CycleNext(first.iter)
                  IN  IF second.item = None
                      THEN [iters |-> iters, carry |-> TRUE, ok |-> FALSE]
                      ELSE OdometerNoCarry(
                               [iters EXCEPT ![i] = [second.iter EXCEPT !.value = second.item]],
                               i + 1, FALSE)

\* The odometer step from position i on, with the carry that reaches it.
\* A position advances when the carry reaches it or it has no value yet; on
\* the sentinel it advances again and passes the carry on; a second sentinel
\* means its list is empty (ok is FALSE).
RECURSIVE Odometer(_, _, _)
Odometer(iters, i, carry) ==
    IF i > Len(iters) THEN [iters |-> iters, carry |-> carry, ok |-> TRUE]
    ELSE IF ~(carry \/ iters[i].value = None)
    THEN Odometer(iters, i + 1, carry)
    ELSE LET first == CycleNext(iters[i])
         IN  IF first.item # None
             THEN Odometer([iters EXCEPT ![i] = [first.iter EXCEPT !.value = first.item]],
                           i + 1, FALSE)
             ELSE LET second == CycleNext(first.iter)
                  IN  IF second.item = None
                      THEN [iters |-> iters, carry |-> TRUE, ok |-> FALSE]
                      ELSE Odometer(
                               [iters EXCEPT ![i] = [second.iter EXCEPT !.value = second.item]],
                               i + 1, TRUE)

\* next() of the enumeration: nothing once exhausted; exhausted when a list
\* is empty or the carry passes the last position; else the current values
\* joined, and one name fewer remaining.
NonRepeatingNextOf(e) ==
    IF e.done THEN [item |-> None, iter |-> e]
    ELSE LET o == Odometer(e.iters, 1, TRUE)
         IN  IF ~o.ok \/ o.carry
             THEN [item |-> None, iter |-> [e EXCEPT !.iters = o.iters, !.done = TRUE]]
             ELSE [item |-> Some(Join([i \in 1..Len(o.iters) |-> Unwrap(o.iters[i].value)],
                                     e.separator)),
                   iter |-> [e EXCEPT !.iters = o.iters,
                                      !.remaining = IF e.remaining > 0 THEN e.remaining - 1 ELSE 0]]

\* petnames.iter_non_repeating(rng, n, sep): rng decides the shuffles
CallIterNonRepeating(n, sep) ==
    /\ pc = "ready"
    /\ pc' = "iter_non_repeating"
    /\ words' = n
    /\ separator' = sep
    /\ \E iters \in ShuffledIters(petnames, ListsItems(ListsNew(n))) :
          nonRepeating' = [iters |-> iters, separator |-> sep,
                           remaining |-> PetnamesCardinality(petnames, n), done |-> FALSE]
    /\ calls' = 0
    /\ yielded' = <<>>
    /\ last' = None
    /\ UNCHANGED <<lists, petnames, alliterations, names, rngIn, predicateIn, origin, cli, writer, ran>>

NonRepeatingNext ==
    /\ pc = "iter_non_repeating"
    /\ calls < Len(yielded) + ExtraCalls
    /\ LET r == NonRepeatingNextOf(nonRepeating)
       IN  /\ nonRepeating' = r.iter
           /\ last' = r.item
           /\ yielded' = yielded \o r.item
    /\ calls' = calls + 1
    /\ UNCHANGED <<lists, words, petnames, alliterations, separator, names, pc, rngIn, predicateIn, origin, cli, writer, ran>>

NextEnum ==
    \/ \E n \in 0..EnumMaxWords : \E sep \in Separators : CallIterNonRepeating(n, sep)
    \/ NonRepeatingNext

SpecEnum == Init /\ [][NextEnum]_vars

----------------------------------------------------------------------------
(* The role sequence the documentation gives for n words *)

RoleSequence(n) ==
    [i \in 1..n |-> IF i <= n - 2 THEN "Adverb"
                    ELSE IF i = n - 1 THEN "Adjective" ELSE "Noun"]

\* C1: after k next() calls on Lists::new(n) the items yielded are the first
\* min(k, n) roles of (n-2) Adverbs, Adjective, Noun (nothing for n = 0, Noun
\* for n = 1, Adjective Noun for n = 2); once n calls are made the state is
\* Done, and every further call returns None and leaves it Done.
C1_RoleSequence ==
    pc = "lists" =>
        /\ yielded = SubSeq(RoleSequence(words), 1, Min(calls, words))
        /\ (calls >= 1 /\ calls <= words => last = Some(RoleSequence(words)[calls]))
        /\ (calls >= words <=> lists = ListsDone)
        /\ (calls > words => last = None /\ Len(yielded) = words)

C1_Witness ==
    /\ pc = "lists"
    /\ words = U8Max
    /\ calls = U8Max + ExtraCalls
    /\ lists = ListsDone
    /\ last = None
    /\ Len(yielded) = U8Max

----------------------------------------------------------------------------
(* Petnames: generate_raw, generate and cardinality *)

Elems(s) == {s[i] : i \in DOMAIN s}

\* The list of `petnames` a documented role stands for
Visited(role) ==
    CASE role = "Adverb"    -> petnames.adverbs
      [] role = "Adjective" -> petnames.adjectives
      [] role = "Noun"      -> petnames.nouns

AllNonEmpty ==
    petnames.adjectives # <<>> /\ petnames.adverbs # <<>> /\ petnames.nouns # <<>>

\* The roles of the sequence for n whose list holds a word, in order
Drawable(n) == SelectSeq(RoleSequence(n), LAMBDA role : Visited(role) # <<>>)

\* The exact product of the lengths of the lists the first k roles of the
\* sequence for n visit
RECURSIVE ExactProduct(_, _)
ExactProduct(n, k) ==
    IF k = 0 THEN 1 ELSE ExactProduct(n, k - 1) * Len(Visited(RoleSequence(n)[k]))

\* C2: with three non-empty lists and n >= 1, generate_raw returns Some of
\* exactly n words, whatever the random source produces: n-2 members of
\* adverbs, then a member of adjectives, then a member of nouns.
C2_ExactlyNWordsInRoleOrder ==
    (pc = "generate_raw" /\ words >= 1 /\ AllNonEmpty) =>
        /\ IsSome(last)
        /\ Len(Unwrap(last)) = words
        /\ \A i \in 1..words :
              Unwrap(last)[i] \in
                  IF i <= words - 2 THEN Elems(petnames.adverbs)
                  ELSE IF i = words - 1 THEN Elems(petnames.adjectives)
                  ELSE Elems(petnames.nouns)

C2_Witness ==
    /\ pc = "generate_raw"
    /\ words = MaxWords
    /\ Len(petnames.adjectives) = MaxLen
    /\ Len(petnames.adverbs) = MaxLen
    /\ Len(petnames.nouns) = MaxLen
    /\ IsSome(last)
    /\ Len(Unwrap(last)) = MaxWords
    /\ Unwrap(last)[1] # Unwrap(last)[2]

\* C3: cardinality(n) is 0 for n = 0, |nouns| for n = 1, |adjectives| * |nouns|
\* for n = 2 and |adverbs|^(n-2) * |adjectives| * |nouns| for n >= 3, whenever
\* that product is below the saturation ceiling.
C3_Expected ==
    CASE words = 0 -> 0
      [] words = 1 -> Len(petnames.nouns)
      [] words = 2 -> Len(petnames.adjectives) * Len(petnames.nouns)
      [] OTHER -> (Len(petnames.adverbs) ^ (words - 2))
                      * Len(petnames.adjectives) * Len(petnames.nouns)

C3_CardinalityIsProduct ==
    (pc = "cardinality" /\ C3_Expected < CardMax) => last = C3_Expected

C3_Witness ==
    /\ pc = "cardinality"
    /\ words = 4
    /\ Len(petnames.adverbs) = 2
    /\ Len(petnames.adjectives) = 1
    /\ Len(petnames.nouns) = 1
    /\ last = 4

\* C4: for n >= 1 cardinality(n) is min(P, MAX): P the exact product of the
\* lengths of the lists the role sequence for n visits, MAX the largest value
\* of the result type.  It never wraps around.
C4_CardinalitySaturates ==
    (pc = "cardinality" /\ words >= 1) =>
        last = Min(ExactProduct(words, words), CardMax)

C4_Witness ==
    /\ pc = "cardinality"
    /\ words = MaxWords
    /\ ExactProduct(words, words) > CardMax
    /\ last = CardMax

\* C5: cardinality(n) is 0 exactly when n = 0 or a list the role sequence for n
\* visits is empty, also when the adverb factors before it have saturated.
C5_ZeroIffEmptyListVisited ==
    pc = "cardinality" =>
        (last = 0 <=>
            (words = 0 \/ \E i \in 1..words : Visited(RoleSequence(words)[i]) = <<>>))

C5_Witness ==
    /\ pc = "cardinality"
    /\ words >= 3
    /\ Len(petnames.adverbs) ^ (words - 2) > CardMax
    /\ petnames.adjectives # <<>>
    /\ petnames.nouns = <<>>
    /\ last = 0

\* C6: for n >= 1 generate_raw draws a word for each role of the sequence whose
\* list holds a word and none for a role whose list is empty, in role order;
\* when every visited list is empty it returns None, and the first next() of
\* an iterator made by iter yields nothing.
C6_EmptyListsAreSkipped ==
    /\ (pc = "generate_raw" /\ words >= 1) =>
          IF Drawable(words) = <<>>
          THEN last = None
          ELSE /\ IsSome(last)
               /\ Len(Unwrap(last)) = Len(Drawable(words))
               /\ \A i \in 1..Len(Drawable(words)) :
                     Unwrap(last)[i] \in Elems(Visited(Drawable(words)[i]))
    /\ (pc = "iter" /\ names.words >= 1 /\ Drawable(names.words) = <<>> /\ calls >= 1) =>
          last = None

C6_Witness ==
    /\ pc = "generate_raw"
    /\ words = 4
    /\ petnames.adverbs = <<>>
    /\ petnames.adjectives # <<>>
    /\ petnames.nouns # <<>>
    /\ IsSome(last)
    /\ Len(Unwrap(last)) = 2

\* C7 as claimed: generate with n = 0 returns an explicit empty name, which
\* differs from the absent result.
C7_ZeroWordsGiveEmptyName ==
    (pc = "generate" /\ words = 0) => last = Some(<<>>)

\* C7, amended: generate with n = 0 returns the absent result None, the same
\* result as for n >= 1 when no word can be drawn; it returns no empty name.
C7_ZeroWordsGiveNone ==
    pc = "generate" =>
        /\ (words = 0 \/ Drawable(words) = <<>>) <=> last = None
        /\ last # Some(<<>>)

C7_Witness ==
    /\ pc = "generate"
    /\ words = 0
    /\ AllNonEmpty
    /\ last = None

----------------------------------------------------------------------------
(* The non-repeating enumeration *)

AllVisitedNonEmpty(n) == \A i \in 1..n : Visited(RoleSequence(n)[i]) # <<>>

\* Every combination of one word per role of the sequence for n, from role k on
RECURSIVE Combinations(_, _)
Combinations(n, k) ==
    IF k > n THEN {<<>>}
    ELSE { <<w>> \o rest : w \in Elems(Visited(RoleSequence(n)[k])),
                           rest \in Combinations(n, k + 1) }

AllNames(n, sep) == { Join(c, sep) : c \in Combinations(n, 1) }

NoDuplicates(s) == \A i, j \in DOMAIN s : i # j => s[i] # s[j]

\* C8: over non-empty lists (n >= 1) the enumeration yields every combination
\* of the per-role lists exactly once, with no duplicate: as many names as the
\* exact product of the list lengths, which is cardinality(n) whenever the
\* product is within the result type.  It returns None only after the last of
\* them, and from then on every call returns None.  (No name yielded equals
\* an earlier one, in every state; the names are compared with the set of
\* all combinations once None has been returned.)
C8_EveryCombinationOnce ==
    (pc = "iter_non_repeating" /\ words >= 1 /\ AllVisitedNonEmpty(words)) =>
        /\ Len(yielded) <= ExactProduct(words, words)
        /\ IsSome(last) =>
              /\ Unwrap(last) = yielded[Len(yielded)]
              /\ \A i \in 1..(Len(yielded) - 1) : yielded[i] # Unwrap(last)
        /\ (nonRepeating.done \/ calls > Len(yielded)) =>
              /\ nonRepeating.done
              /\ last = None
              /\ NoDuplicates(yielded)
              /\ Elems(yielded) = AllNames(words, separator)
              /\ Len(yielded) = ExactProduct(words, words)
              /\ ExactProduct(words, words) <= CardMax =>
                    Len(yielded) = PetnamesCardinality(petnames, words)

C8_Witness ==
    /\ pc = "iter_non_repeating"
    /\ words = EnumMaxWords
    /\ Len(petnames.adverbs) = 2
    /\ Len(petnames.adjectives) = 2
    /\ Len(petnames.nouns) = 1
    /\ nonRepeating.done
    /\ Len(yielded) = 4
    /\ PetnamesCardinality(petnames, words) = 4
    /\ calls = 4 + ExtraCalls
    /\ last = None

\* C9: when n = 0 or a list the role sequence visits is empty, the enumeration
\* yields nothing from its first call on and reports 0 names remaining.
C9_NothingWhenAListIsEmpty ==
    (pc = "iter_non_repeating" /\ (words = 0 \/ ~AllVisitedNonEmpty(words))) =>
        /\ yielded = <<>>
        /\ last = None
        /\ nonRepeating.remaining = 0
        /\ calls >= 1 => nonRepeating.done

C9_Witness ==
    /\ pc = "iter_non_repeating"
    /\ words = EnumMaxWords
    /\ petnames.adverbs # <<>>
    /\ petnames.adjectives = <<>>
    /\ petnames.nouns # <<>>
    /\ calls >= 1
    /\ yielded = <<>>
    /\ last = None
    /\ nonRepeating.remaining = 0

\* The cardinality of the generator a Names iterates over, for its words
NamesCardinality ==
    IF names.generator = "Petnames"
    THEN PetnamesCardinality(petnames, names.words)
    ELSE AlliterationsCardinality(alliterations, names.words)

\* The list of p that some role of an n-word name selects holds a word
CanDraw(p, n) == \E i \in 1..n : RoleList(p, RoleSequence(n)[i]) # <<>>

\* C10 as stated: after any number of next() calls on the iterator over a
\* Petnames or an Alliterations whose cardinality(n) > 0, the result of the
\* latest call is a name, never end-of-sequence.
C10_NeverEndsWhenCardinalityPositive ==
    (pc = "iter" /\ calls >= 1 /\ NamesCardinality > 0) => IsSome(last)

\* C10: every next() on the iterator returns the result of one generate call
\* made with the iterator's random source, words and separator, and leaves
\* the random source as that one call leaves it; whatever the number of
\* calls made, the result is a name and not end-of-sequence when the
\* generator is a Petnames whose cardinality(n) > 0, or an Alliterations
\* whose cardinality(n) > 0 and whose groups each have a word in a list that
\* an n-word name draws from.
C10_NextIsOneGenerateAndNeverEnds ==
    /\ [][(pc = "iter" /\ calls' = calls + 1) =>
              /\ last' = NamesGenerate(names).value
              /\ names' = [names EXCEPT !.rng = NamesGenerate(names).rng]
              /\ pc' = "iter"]_vars
    /\ []((/\ pc = "iter"
           /\ calls >= 1
           /\ NamesCardinality > 0
           /\ names.generator = "Alliterations" =>
                  \A c \in DOMAIN alliterations : CanDraw(alliterations[c], names.words))
              => IsSome(last))

\* Two groups, one of them without adjectives, and MaxCalls names drawn
C10_Witness ==
    /\ pc = "iter"
    /\ names.generator = "Alliterations"
    /\ names.words >= 2
    /\ calls = MaxCalls
    /\ DOMAIN alliterations = {"a", "b"}
    /\ alliterations["a"].adjectives = <<>>
    /\ alliterations["b"].adjectives # <<>>
    /\ NamesCardinality > 0
    /\ IsSome(last)

\* Where word i of ws starts in a string that holds the words of ws in
\* order with sep between them (the number of characters before it)
RECURSIVE Offset(_, _, _)
Offset(ws, i, sep) ==
    IF i <= 1 THEN 0 ELSE Offset(ws, i - 1, sep) + Len(ws[i - 1]) + Len(sep)

\* str is the words of ws in order, one sep between adjacent words, nothing
\* before the first word and nothing after the last
SeparatedWords(str, ws, sep) ==
    /\ Len(str) = Offset(ws, Len(ws), sep) + Len(ws[Len(ws)])
    /\ \A i \in 1..Len(ws) :
          SubSeq(str, Offset(ws, i, sep) + 1, Offset(ws, i, sep) + Len(ws[i])) = ws[i]
    /\ \A i \in 1..(Len(ws) - 1) :
          SubSeq(str, Offset(ws, i, sep) + Len(ws[i]) + 1, Offset(ws, i + 1, sep)) = sep

\* C11: generate(rng, n, separator) is None exactly when generate_raw(rng, n)
\* on the same random source is None; otherwise it is the words of
\* generate_raw in order, one separator between adjacent words, none before
\* the first or after the last.
C11_GenerateJoinsRawWords ==
    pc = "generate" =>
        LET raw == PetnamesGenerateRaw(petnames, rngIn, words).value
        IN  /\ last = None <=> raw = None
            /\ IsSome(raw) =>
                  /\ IsSome(last)
                  /\ SeparatedWords(Unwrap(last), Unwrap(raw), separator)

\* Three words or more joined with the two-character separator
C11_Witness ==
    /\ pc = "generate"
    /\ separator = <<":", ":">>
    /\ IsSome(last)
    /\ Len(Unwrap(PetnamesGenerateRaw(petnames, rngIn, words).value)) >= 3
    /\ Len(Unwrap(last)) >= 3 + 2 * 2

\* The words of list that begin with c, in the order of list
BeginningWith(list, c) == SelectSeq(list, LAMBDA w : w # <<>> /\ w[1] = c)

\* The first characters of the words of list
FirstLetters(list) == {list[i][1] : i \in {k \in 1..Len(list) : list[k] # <<>>}}

WordsBeginWithGroupLetter(a) ==
    \A c \in DOMAIN a :
        \A list \in {"Adverb", "Adjective", "Noun"} :
            \A i \in 1..Len(RoleList(a[c], list)) :
                /\ RoleList(a[c], list)[i] # <<>>
                /\ RoleList(a[c], list)[i][1] = c

\* C13 as stated: in every Alliterations made by a conversion from a Petnames
\* or from explicit groups, and after any retain, every word of group c
\* begins with c.
C13_EveryGroupWordBeginsWithItsLetter ==
    origin # "none" => WordsBeginWithGroupLetter(alliterations)

\* C13: in every Alliterations converted from a Petnames, also after retains
\* whose predicates leave the groups they are shown as they are, every word
\* of group c begins with c.
C13_ConvertedGroupWordsBeginWithLetter ==
    origin = "Petnames" => WordsBeginWithGroupLetter(alliterations)

\* A converted Alliterations after a retain that removed a group and kept one
\* with words in all three lists
C13_Witness ==
    /\ origin = "Petnames"
    /\ pc = "alliterations"
    /\ predicateIn.kind = "letter_is_not"
    /\ FirstLetters(petnames.nouns) = {"a", "b"}
    /\ DOMAIN alliterations = {"a"}
    /\ alliterations["a"].adjectives # <<>>
    /\ alliterations["a"].adverbs # <<>>
    /\ alliterations["a"].nouns # <<>>

\* Every word of name is a word of group
DrawnFrom(name, group) ==
    \A i \in 1..Len(name) :
        name[i] \in Elems(group.adjectives) \cup Elems(group.adverbs) \cup Elems(group.nouns)

\* C14: a name generated for n >= 1 words from an Alliterations built from a
\* Petnames is made of words that all begin with the same character, and
\* they are all words of one group.
C14_NamesAlliterate ==
    (pc = "alliterations_generate_raw" /\ origin = "Petnames" /\ words >= 1 /\ IsSome(last)) =>
        /\ \A i, j \in 1..Len(Unwrap(last)) :
              /\ Unwrap(last)[i] # <<>>
              /\ Unwrap(last)[i][1] = Unwrap(last)[j][1]
        /\ \E c \in DOMAIN alliterations : DrawnFrom(Unwrap(last), alliterations[c])

\* A name of two words or more drawn from the second of two groups
C14_Witness ==
    /\ pc = "alliterations_generate_raw"
    /\ origin = "Petnames"
    /\ DOMAIN alliterations = {"a", "b"}
    /\ words >= 2
    /\ IsSome(last)
    /\ Len(Unwrap(last)) >= 2
    /\ Unwrap(last)[1][1] = "b"

\* The sum, in the integers, of the cardinality(n) of the groups filed under
\* the letters of keys
RECURSIVE ExactSum(_, _, _)
ExactSum(a, keys, n) ==
    IF keys = {} THEN 0
    ELSE LET c == CHOOSE k \in keys : TRUE
         IN  PetnamesCardinality(a[c], n) + ExactSum(a, keys \ {c}, n)

\* C15: Alliterations::cardinality(n) is the sum of the groups'
\* Petnames::cardinality(n), clamped at the maximum when the sum exceeds it;
\* it is 0 when there is no group or n = 0.
C15_CardinalityIsSaturatingSum ==
    pc = "alliterations_cardinality" =>
        /\ last = Min(ExactSum(alliterations, DOMAIN alliterations, words), CardMax)
        /\ (DOMAIN alliterations = {} \/ words = 0) => last = 0

\* Two groups, each below the maximum, whose sum exceeds it
C15_Witness ==
    /\ pc = "alliterations_cardinality"
    /\ DOMAIN alliterations = {"a", "b"}
    /\ PetnamesCardinality(alliterations["a"], words) < CardMax
    /\ PetnamesCardinality(alliterations["b"], words) < CardMax
    /\ ExactSum(alliterations, DOMAIN alliterations, words) > CardMax
    /\ last = CardMax

\* new is old without its words that fail predicate: as many words as old
\* has words that satisfy it, and each of those at the place its rank among
\* them gives it
KeptInOrder(new, old, predicate) ==
    LET kept == {i \in 1..Len(old) : Holds(predicate, old[i])}
    IN  /\ Len(new) = Cardinality(kept)
        /\ \A i \in kept : new[Cardinality({j \in kept : j <= i})] = old[i]

\* C16: a retain(p) leaves in each of the three lists exactly the words of
\* its previous content for which p holds, in their previous order; a retain
\* with the predicate of the retain before it changes nothing.
C16_RetainKeepsExactlyTheMatchingWords ==
    [][(pc = "ready" /\ pc' = "ready") =>
          /\ KeptInOrder(petnames'.adjectives, petnames.adjectives, predicateIn')
          /\ KeptInOrder(petnames'.adverbs, petnames.adverbs, predicateIn')
          /\ KeptInOrder(petnames'.nouns, petnames.nouns, predicateIn')
          /\ predicateIn' = predicateIn => petnames' = petnames]_vars

\* The first word of each list has been removed and the second kept
C16_Witness ==
    /\ pc = "ready"
    /\ predicateIn = [kind |-> "starts_with", letters |-> 0, c |-> "b"]
    /\ petnames = Petnames(<< <<"b", "j">> >>, << <<"b", "v">> >>, << <<"b", "n">> >>)

\* C17: a retain whose predicate does not modify the groups removes the
\* groups for which the predicate answers false and no other, and leaves
\* every other group under its letter with its three lists as they were.
C17_RetainRemovesExactlyRejectedGroups ==
    [][(pc = "alliterations" /\ pc' = "alliterations" /\ predicateIn'.kind # "assign") =>
          /\ DOMAIN alliterations' =
                {c \in DOMAIN alliterations : GroupHolds(predicateIn', c, alliterations[c]).keep}
          /\ \A c \in DOMAIN alliterations' : alliterations'[c] = alliterations[c]]_vars

\* Of the two groups of a converted Petnames, the retain of the groups with
\* two-word names has removed the one without adjectives
C17_Witness ==
    /\ pc = "alliterations"
    /\ origin = "Petnames"
    /\ predicateIn.kind = "cardinality"
    /\ predicateIn.words = 2
    /\ FirstLetters(petnames.nouns) = {"a", "b"}
    /\ BeginningWith(petnames.adjectives, "b") = <<>>
    /\ DOMAIN alliterations = {"a"}
    /\ alliterations["a"] = AlliterationsFromPetnames(petnames)["a"]

\* C18: two runs of the same command line that gives a seed, with the same
\* word lists, return the same result and write the same lines, whatever
\* the operating system's random source would have given each of them.
C18_SameSeedSameOutput ==
    (pc = "cli" /\ IsSome(cli.seed) /\ Len(ran) = 2) => ran[1] = ran[2]

\* Two seeded runs that each wrote MaxCount names of two words or more
C18_Witness ==
    /\ pc = "cli"
    /\ IsSome(cli.seed)
    /\ cli.words >= 2
    /\ cli.count = MaxCount
    /\ Len(ran) = 2
    /\ ran[1].result = "Ok"
    /\ Len(ran[1].out) = MaxCount
    /\ ran[2].out = ran[1].out

\* The words of the name str, which sep separates (str.split(sep))
RECURSIVE Split(_, _)
Split(str, sep) ==
    LET starts == {i \in 1..(Len(str) - Len(sep) + 1) :
                      SubSeq(str, i, i + Len(sep) - 1) = sep}
    IN  IF starts = {} THEN <<str>>
        ELSE LET first == CHOOSE i \in starts : \A j \in starts : i <= j
             IN  <<SubSeq(str, 1, first - 1)>>
                     \o Split(SubSeq(str, first + Len(sep), Len(str)), sep)

\* The words of all the names the run r of command line c wrote
PrintedWords(c, r) ==
    UNION {Elems(Split(r.out[i], c.separator)) : i \in 1..Len(r.out)}

\* C19: a run given alliterate_with = c, together with any other options the
\* parser accepts, returns the Alliteration error or prints only names whose
\* words all begin with c.
C19_AlliterateWithGivesTheLetter ==
    (pc = "cli" /\ IsSome(cli.alliterate_with) /\ Len(ran) >= 1) =>
        \/ ran[1].result = "Alliteration"
        \/ \A w \in PrintedWords(cli, ran[1]) :
              w # <<>> /\ w[1] = Unwrap(cli.alliterate_with)

\* The words of the built-in lists of a size
BuiltinWordSet(size) ==
    Elems(PetnamesBuiltin(size).adjectives) \cup Elems(PetnamesBuiltin(size).adverbs)
        \cup Elems(PetnamesBuiltin(size).nouns)

\* C20: a run given --complexity=K (and no directory) prints names made of
\* words of the built-in lists K, as a run given --lists=K does.
C20_ComplexityIsAliasOfLists ==
    (pc = "cli" /\ IsSome(cli.complexity) /\ ~IsSome(cli.directory) /\ Len(ran) >= 1) =>
        PrintedWords(cli, ran[1]) \subseteq BuiltinWordSet(Unwrap(cli.complexity))

----------------------------------------------------------------------------
(* The role sequencer's size_hint *)

\* The words still to come after k next() calls on Lists::new(n)
WordsLeft(n, k) == IF n > k THEN n - k ELSE 0

\* C23: for every n in 0..=255, size_hint() after k next() calls on
\* Lists::new(n) is (max(n-k, 0), Some(max(n-k, 0))), so it goes down by one
\* with every call and stays 0 once Done; the u8 addition in remaining() never
\* overflows, n = 255 included.
C23_SizeHintIsExact ==
    /\ pc \in {"lists", "size_hint"} => ~ListsRemainingOverflows(lists)
    /\ pc = "size_hint" =>
           last = <<WordsLeft(words, calls), Some(WordsLeft(words, calls))>>

C23_Witness ==
    /\ pc = "size_hint"
    /\ words = U8Max
    /\ calls = 0
    /\ lists = ListsAdverb(U8Max - 3)
    /\ last = <<U8Max, Some(U8Max)>>

----------------------------------------------------------------------------
(* Petnames: cardinality against generate_raw *)

\* o is Some of a name of exactly n words
ExactlyWords(o, n) == IsSome(o) /\ Len(Unwrap(o)) = n

\* C24: cardinality(n) > 0 exactly when generate_raw(rng, n) returns a name of
\* exactly n words, whatever the random source; and generate_raw returns None
\* only when cardinality(n) = 0.
C24_PositiveCardinalityIffFullName ==
    pc = "generate_raw" =>
        /\ PetnamesCardinality(petnames, words) > 0 <=> ExactlyWords(last, words)
        /\ last = None => PetnamesCardinality(petnames, words) = 0

\* The converse of the second part fails: cardinality is 0 and a name of fewer
\* words is returned.
C24_Witness ==
    /\ pc = "generate_raw"
    /\ words = 3
    /\ petnames.adverbs = <<>>
    /\ PetnamesCardinality(petnames, words) = 0
    /\ IsSome(last)
    /\ Len(Unwrap(last)) = 2

----------------------------------------------------------------------------
(* run: the cardinality check *)

\* The words of list that have at most letters letters; all of them for 0
WithinLetters(list, letters) == SelectSeq(list, LAMBDA w : letters = 0 \/ Len(w) <= letters)

\* The word lists of command line c once loaded and filtered by --letters
FilteredLists(c) ==
    Petnames(WithinLetters(RunLoad(c).words.adjectives, c.letters),
             WithinLetters(RunLoad(c).words.adverbs, c.letters),
             WithinLetters(RunLoad(c).words.nouns, c.letters))

\* C21: when the word lists are loaded and, after the --letters filter,
\* cardinality(words) is 0, run returns the Cardinality error and writes
\* nothing; words = 0 gives this outcome whatever the word lists are.
C21_ZeroCardinalityIsReported ==
    (pc = "cli" /\ RunLoad(cli).error = "none") =>
        \A i \in 1..Len(ran) :
            /\ PetnamesCardinality(FilteredLists(cli), cli.words) = 0 =>
                   ran[i].result = "Cardinality" /\ ran[i].out = <<>>
            /\ cli.words = 0 => ran[i].result = "Cardinality" /\ ran[i].out = <<>>

\* The filter empties the adverbs, which three words visit.
C21_Witness ==
    /\ pc = "cli"
    /\ Len(ran) >= 1
    /\ IsSome(cli.directory)
    /\ cli.letters # 0
    /\ cli.words = 3
    /\ PetnamesCardinality(RunLoad(cli).words, cli.words) > 0
    /\ FilteredLists(cli).adverbs = <<>>
    /\ ran[1].result = "Cardinality"
    /\ ran[1].out = <<>>

----------------------------------------------------------------------------
(* run: --alliterate and --ubuntu *)

\* The words of p that begin with c, list by list
WordsBeginningWith(p, c) ==
    Petnames(BeginningWith(p.adjectives, c), BeginningWith(p.adverbs, c),
             BeginningWith(p.nouns, c))

\* The letters n-word names of p can alliterate on: the first letters of its
\* nouns whose words have a cardinality(n) above 0
AlliterableLetters(p, n) ==
    {c \in FirstLetters(p.nouns) : PetnamesCardinality(WordsBeginningWith(p, c), n) > 0}

\* The line str is a name of n words that sep separates, all beginning with
\* one letter of letters
AlliteratesOn(str, n, sep, letters) ==
    LET ws == Split(str, sep)
    IN  /\ Len(ws) = n
        /\ \E c \in letters : \A i \in 1..n : ws[i] # <<>> /\ ws[i][1] = c

\* C22: a run given --alliterate or --ubuntu that passes the cardinality check
\* keeps the letter groups of cardinality(words) > 0 only; with none left it
\* returns the Alliteration error and writes nothing, and otherwise every name
\* it prints has exactly `words` words, all beginning with one letter (of a
\* group it kept).
C22_AlliterateKeepsPositiveGroups ==
    (pc = "cli" /\ (cli.alliterate \/ cli.ubuntu) /\ RunLoad(cli).error = "none"
        /\ PetnamesCardinality(FilteredLists(cli), cli.words) > 0) =>
        \A i \in 1..Len(ran) :
            IF AlliterableLetters(FilteredLists(cli), cli.words) = {}
            THEN ran[i].result = "Alliteration" /\ ran[i].out = <<>>
            ELSE /\ ran[i].result # "Alliteration"
                 /\ \A k \in 1..Len(ran[i].out) :
                       AlliteratesOn(ran[i].out[k], cli.words, cli.separator,
                                     AlliterableLetters(FilteredLists(cli), cli.words))

\* The nouns begin with two letters, the adverbs with one of them: the other
\* letter's group is removed, and the names printed are of the group left.
C22_Witness ==
    /\ pc = "cli"
    /\ Len(ran) >= 1
    /\ cli.alliterate
    /\ cli.words = 3
    /\ Cardinality(FirstLetters(FilteredLists(cli).nouns)) = 2
    /\ Cardinality(AlliterableLetters(FilteredLists(cli), cli.words)) = 1
    /\ ran[1].result = "Ok"
    /\ Len(ran[1].out) = MaxCount

\* No adjective begins as a noun does: no group is left.
C22_NoGroupLeft ==
    /\ pc = "cli"
    /\ Len(ran) >= 1
    /\ cli.ubuntu
    /\ cli.words = 2
    /\ AlliterableLetters(FilteredLists(cli), cli.words) = {}
    /\ ran[1].result = "Alliteration"

----------------------------------------------------------------------------
(* run: counted output *)

\* The writer w never fails
NeverFails(w) == w.error = "none" /\ w.flush = "none"

\* The command line c passes the checks run makes before it prints: the lists
\* load, their cardinality(words) is above 0 and, when names are to
\* alliterate, a letter (the letter chosen, for --alliterate-with alone) has
\* words of cardinality(words) above 0
PassesChecks(c) ==
    /\ RunLoad(c).error = "none"
    /\ PetnamesCardinality(FilteredLists(c), c.words) > 0
    /\ (c.alliterate \/ c.ubuntu) => AlliterableLetters(FilteredLists(c), c.words) # {}
    /\ (~c.alliterate /\ ~c.ubuntu /\ IsSome(c.alliterate_with)) =>
           Unwrap(c.alliterate_with) \in AlliterableLetters(FilteredLists(c), c.words)

\* C25: without --stream and with a writer that never fails, a run that passes
\* the cardinality and alliteration checks returns Ok having written exactly
\* `count` lines, each a name of exactly `words` words, in the plain, the
\* --alliterate/--ubuntu and the --alliterate-with branch: the names do not
\* end before `count` of them are taken.
C25_CountedRunWritesCountNames ==
    (pc = "cli" /\ ~cli.stream /\ NeverFails(writer) /\ PassesChecks(cli)) =>
        \A i \in 1..Len(ran) :
            /\ ran[i].result = "Ok"
            /\ Len(ran[i].out) = cli.count
            /\ \A k \in 1..Len(ran[i].out) :
                  Len(Split(ran[i].out[k], cli.separator)) = cli.words

C25_Witness ==
    /\ pc = "cli"
    /\ Len(ran) >= 1
    /\ ~cli.stream
    /\ NeverFails(writer)
    /\ ~cli.alliterate /\ ~cli.ubuntu /\ IsSome(cli.alliterate_with)
    /\ cli.count = MaxCount
    /\ cli.words = MaxCliWords
    /\ ran[1].result = "Ok"
    /\ Len(ran[1].out) = MaxCount
    /\ Len(Split(ran[1].out[MaxCount], cli.separator)) = MaxCliWords

----------------------------------------------------------------------------
(* main: a reader that goes away *)

\* C26: when the output fails with BrokenPipe, at the write of a name or at
\* the final flush, with --stream or without, run returns Disconnected and
\* main exits with status 0; every other error makes main exit with status 1.
C26_BrokenPipeExitsZero ==
    pc = "exited" =>
        /\ ran[1].failure.kind = "BrokenPipe" =>
               ran[1].result = "Disconnected" /\ last = Some(0)
        /\ ran[1].result \notin {"Ok", "Disconnected"} => last = Some(1)

====
